---- MODULE Spec2Model ----
(***************************************************************************)
(* FossenEnv (tud_rl/envs/FossenEnv.py): an own ship (OS) steering to a    *)
(* goal among N_TSs target ships (TSs) under COLREG encounter rules.       *)
(*                                                                         *)
(* Units.  Positions and distances are metres; a squared OS-TS distance is *)
(* kept fourfold (EDsq4 = 4*ED^2) so that safety_dist = 7.5 m squares to   *)
(* the integer 225.  Angles are half-degrees (720 = 360 deg, 135 = 67.5    *)
(* deg).  Velocities are world-frame components in dm/s.  Elapsed time is  *)
(* counted in half-seconds (delta_t = 0.5 s = 1).  Rewards are integers in *)
(* units of 1/Unit.                                                        *)
(*                                                                         *)
(* The vessel integrator CyberShipII (FossenCS2) and the geometry helpers  *)
(* of FossenFnc are collaborators: what they return for a vessel (off-map  *)
(* status, TCPA, distance, bearings, heading intersection, velocity) is    *)
(* carried by the vessel record, and an advance of the dynamics or a draw  *)
(* of the spawn procedure picks a record from a set.                       *)
(***************************************************************************)
EXTENDS Integers, Sequences, FiniteSets, TLC

------------------------------------------------------------------------------
(* Configuration, FossenEnv.__init__ *)

N_max == 100

E_max == 100

N_TSs == 2

\* twice safety_dist (7.5 m)
safety_dist_x2 == 15

TCPA_crit == 60

goal_reach_dist == 25

\* delta_t (0.5 s) in half-seconds
delta_t == 1

r_coll_sigma == 5

\* _max_episode_steps, scaled down from 1e3
max_episode_steps == 2

\* step calls explored beyond the step limit of an episode
ExtraSteps == 2

\* step calls explored per episode where only the targets move
StepsTS == 2

\* rewards are stored as integers, in units of 1/Unit
Unit == 100 * 100

\* default of the distance argument of _get_COLREG_situation (np.inf)
NoCutoff == -1

\* slack of _handle_respawn: a target with TCPA below it is respawned
TCPA_slack == -10

\* CyberShipII.length (1.255 m) in millimetres
OS_length_mm == 1255

Slots == 1 .. N_TSs

------------------------------------------------------------------------------
(* Arithmetic helpers *)

\* Heron's iteration on t = <<n, x>>, x > 0 no smaller than the root
ISqrtHeron[t \in Nat \X Nat] ==
    LET y == (t[2] + t[1] \div t[2]) \div 2
    IN  IF y >= t[2] THEN t[2] ELSE ISqrtHeron[<<t[1], y>>]

\* floor of the square root, n < 2^30
ISqrt(n) ==
    IF n = 0 THEN 0 ELSE
    ISqrtHeron[<<n, IF n < 256 THEN 16
                    ELSE IF n < 4096 THEN 64
                    ELSE IF n < 65536 THEN 256
                    ELSE IF n < 1048576 THEN 1024
                    ELSE IF n < 16777216 THEN 4096 ELSE 32768>>]

Abs(x) == IF x < 0 THEN -x ELSE x

Max(a, b) == IF a >= b THEN a ELSE b

Clip(x, lo, hi) == IF x < lo THEN lo ELSE IF x > hi THEN hi ELSE x

\* the product of two fixed-point numbers, rounded
FixMul(x, y) == (x * y + Unit \div 2) \div Unit

\* square and multiply on t = <<b, q, acc>>
FixPowSqMul[t \in Nat \X Nat \X Nat] ==
    IF t[2] = 0 THEN t[3]
    ELSE FixPowSqMul[<<FixMul(t[1], t[1]), t[2] \div 2,
                       IF t[2] % 2 = 1 THEN FixMul(t[3], t[1]) ELSE t[3]>>]

\* acc * b^q for fixed-point acc and b in [0, Unit], by square and multiply
FixPow(b, q, acc) == FixPowSqMul[<<b, q, acc>>]

\* Unit * exp(-0.5 * ED^2 / sigma^2) for ED^2 = EDsq4/4: the exponent is
\* -EDsq4 / (8 sigma^2), taken as a power of exp(-1/(8 sigma^2)) = 0.9950
GaussTerm(EDsq4) ==
    LET steps == (EDsq4 * 200) \div (8 * r_coll_sigma * r_coll_sigma)
    IN  FixPow(9950, steps, Unit)

------------------------------------------------------------------------------
(* FossenFnc *)

\* ED(N0, E0, N1, E1, sqrt=False)
EDsq(N0, E0, N1, E1) == (N1 - N0) * (N1 - N0) + (E1 - E0) * (E1 - E0)

\* angle_to_2pi on half-degrees
angle_to_2pi(a) == a % 720

\* angle_to_pi on half-degrees: [0, 720) onto (-360, 360]
angle_to_pi(a) == IF angle_to_2pi(a) > 360 THEN angle_to_2pi(a) - 720
                  ELSE angle_to_2pi(a)

------------------------------------------------------------------------------
(* CyberShipII *)

\* a target ship as the collaborators report it relative to the own ship
TSrec(off, tc, ed, bO, bT, ct, vx, vy) ==
    [off |-> off, tcpa |-> tc, EDsq4 |-> ed,
     bng_OS |-> bO, bng_TS |-> bT, C_T |-> ct, vx |-> vx, vy |-> vy]

\* CyberShipII._is_off_map: a target carries the answer, the own ship its
\* position
is_off_map(CS) ==
    IF "off" \in DOMAIN CS THEN CS.off
    ELSE \/ CS.N <= 0 \/ CS.N >= N_max
         \/ CS.E <= 0 \/ CS.E >= E_max

\* CyberShipII._get_V
get_V(CS) == ISqrt(CS.vx * CS.vx + CS.vy * CS.vy)

\* V_OS * cos(C_T_side), C_T_side the angle between the two courses: the
\* component of the own ship's velocity along the course of a moving target
V_OS_along(OS_, TS) == (OS_.vx * TS.vx + OS_.vy * TS.vy) \div get_V(TS)

------------------------------------------------------------------------------
(* FossenEnv._get_ship_domain *)

\* 1000 * (V/10)^1.26 for a speed V in dm/s
Pow126Milli(V) ==
    CASE V = 0 -> 0    [] V = 1 -> 55   [] V = 2 -> 132
      [] V = 3 -> 219  [] V = 4 -> 315  [] V = 5 -> 418
      [] V = 6 -> 525  [] V = 7 -> 638  [] V = 8 -> 755
      [] V = 9 -> 876  [] V = 10 -> 1000  [] V = 11 -> 1128
      [] V = 12 -> 1258

\* the radius shrinks towards a speed of 0.2 m/s and grows from there
domain_of_V_offset(V) ==
    (OS_length_mm * Pow126Milli(V)) \div 10000 + 300 * Abs(V - 2)

\* OS.length * V**1.26 + 30 * V, in centimetres, V in dm/s
domain_of_V(V) == (OS_length_mm * Pow126Milli(V)) \div 10000 + 300 * V

\* V = np.max([VOS, VR])
domain_V(OS_, TS) ==
    LET VOS == get_V(OS_)
        VR  == ISqrt((TS.vy - OS_.vy) * (TS.vy - OS_.vy)
                     + (TS.vx - OS_.vx) * (TS.vx - OS_.vx))
    IN  Max(VOS, VR)

\* OS.length * V^1.26 + 30 * V, in centimetres
get_ship_domain(OS_, TS) ==
    LET VOS  == get_V(OS_)
        vxOS == OS_.vx
        vyOS == OS_.vy
        vxTS == TS.vx
        vyTS == TS.vy
        VR   == ISqrt((vyTS - vyOS) * (vyTS - vyOS) + (vxTS - vxOS) * (vxTS - vxOS))
        V    == Max(VOS, VR)
    IN  domain_of_V(V)

\* ED_OS_TS <= domain (FossenEnv._set_state), both in centimetres
InDomain(OS_, TS) ==
    TS.EDsq4 * 2500 <= get_ship_domain(OS_, TS) * get_ship_domain(OS_, TS)

------------------------------------------------------------------------------
(* FossenEnv._get_COLREG_situation *)

\* COLREG 1: Head-on
is_head_on(bng_OS, C_T) ==
    /\ -10 <= angle_to_pi(bng_OS) /\ angle_to_pi(bng_OS) <= 10
    /\ 350 <= C_T /\ C_T <= 370

\* the starboard band of C_T opened at 175 instead of 185 degrees
is_starboard_crossing_wide(bng_OS, C_T) ==
    /\ 10 <= bng_OS /\ bng_OS <= 225
    /\ 350 <= C_T /\ C_T <= 585

\* COLREG 2: Starboard crossing
is_starboard_crossing(bng_OS, C_T) ==
    /\ 10 <= bng_OS /\ bng_OS <= 225
    /\ 370 <= C_T /\ C_T <= 585

\* COLREG 3: Portside crossing
is_portside_crossing(bng_OS, C_T) ==
    /\ 495 <= bng_OS /\ bng_OS <= 710
    /\ 135 <= C_T /\ C_T <= 350

\* COLREG 4: Overtaking
is_overtaking(bng_TS, C_T, V_OS_cos, V_TS) ==
    /\ 225 <= bng_TS /\ bng_TS <= 495
    /\ -135 <= angle_to_pi(C_T) /\ angle_to_pi(C_T) <= 135
    /\ V_OS_cos > V_TS

\* the crossing tests tried before the head-on test
get_COLREG_situation_reordered(OS_, TS, distance) ==
    LET bng_OS == TS.bng_OS
        bng_TS == TS.bng_TS
        V_TS   == get_V(TS)
        C_T    == TS.C_T
    IN  IF distance # NoCutoff /\ TS.EDsq4 > 4 * distance * distance THEN 0
        ELSE IF is_starboard_crossing(bng_OS, C_T) THEN 2
        ELSE IF is_portside_crossing(bng_OS, C_T) THEN 3
        ELSE IF is_head_on(bng_OS, C_T) THEN 1
        ELSE IF is_overtaking(bng_TS, C_T, V_OS_along(OS_, TS), V_TS) THEN 4
        ELSE 0

get_COLREG_situation(OS_, TS, distance) ==
    LET bng_OS == TS.bng_OS
        bng_TS == TS.bng_TS
        V_TS   == get_V(TS)
        C_T    == TS.C_T
    IN  IF distance # NoCutoff /\ TS.EDsq4 > 4 * distance * distance THEN 0
        ELSE IF is_head_on(bng_OS, C_T) THEN 1
        ELSE IF is_starboard_crossing(bng_OS, C_T) THEN 2
        ELSE IF is_portside_crossing(bng_OS, C_T) THEN 3
        ELSE IF is_overtaking(bng_TS, C_T, V_OS_along(OS_, TS), V_TS) THEN 4
        ELSE 0

\* the ship domain passed as the cutoff of every call
set_COLREGs_gated(OS_, TSs_) ==
    [i \in 1 .. Len(TSs_) |->
        IF InDomain(OS_, TSs_[i])
        THEN get_COLREG_situation(OS_, TSs_[i], NoCutoff)
        ELSE 0]

\* the results stored in the reverse order of the targets
set_COLREGs_reversed(OS_, TSs_) ==
    [i \in 1 .. Len(TSs_) |->
        get_COLREG_situation(OS_, TSs_[Len(TSs_) + 1 - i], NoCutoff)]

\* FossenEnv._set_COLREGs: the new list, one call per target, no cutoff
set_COLREGs(OS_, TSs_) ==
    [i \in 1 .. Len(TSs_) |-> get_COLREG_situation(OS_, TSs_[i], NoCutoff)]

------------------------------------------------------------------------------
(* FossenEnv._handle_map_leaving, FossenEnv._handle_respawn *)

\* clip = True reflects the vessel at the border as mirrow = True does
handle_map_leaving_reflecting(CS, respawn, mirrow, clip, newTS) ==
    IF is_off_map(CS)
    THEN IF respawn THEN <<newTS, TRUE>>
         ELSE IF mirrow \/ clip
              THEN <<[CS EXCEPT !.psi = IF CS.E <= 0 \/ CS.E >= E_max
                                        THEN 720 - CS.psi
                                        ELSE 360 - CS.psi], FALSE>>
              ELSE <<CS, FALSE>>
    ELSE <<CS, FALSE>>

\* newTS is the vessel self._get_TS() returns when it is called
handle_map_leaving(CS, respawn, mirrow, clip, newTS) ==
    IF is_off_map(CS)
    THEN IF respawn THEN <<newTS, TRUE>>
         ELSE IF mirrow
              THEN <<[CS EXCEPT !.psi = IF CS.E <= 0 \/ CS.E >= E_max
                                        THEN 720 - CS.psi
                                        ELSE 360 - CS.psi], FALSE>>
         ELSE IF clip
              THEN <<[CS EXCEPT !.N = Clip(CS.N, 0, N_max),
                                !.E = Clip(CS.E, 0, E_max)], FALSE>>
              ELSE <<CS, FALSE>>
    ELSE <<CS, FALSE>>

\* a target is respawned from a TCPA of -10 s on
handle_respawn_inclusive(TS, newTS) ==
    IF TS.tcpa <= TCPA_slack THEN <<newTS, TRUE>> ELSE <<TS, FALSE>>

handle_respawn(TS, newTS) ==
    IF TS.tcpa < TCPA_slack THEN <<newTS, TRUE>> ELSE <<TS, FALSE>>

\* the draws of the spawn procedure a handler consumes
Draws(needed, S) == IF needed THEN S ELSE {CHOOSE s \in S : TRUE}

\* one slot through FossenEnv.step's two passes: the advanced vessel a goes
\* through _handle_map_leaving, its result through _handle_respawn
MapPass(a, S) ==
    {handle_map_leaving(a, TRUE, FALSE, FALSE, s) : s \in Draws(is_off_map(a), S)}

RespawnPass(m, S) ==
    {[TS       |-> r[1],
      flag     |-> r[2],
      map_flag |-> m[2]] :
        r \in {handle_respawn(m[1], s) : s \in Draws(m[1].tcpa < TCPA_slack, S)}}

\* a respawn that removes the vessel instead of replacing it
CollectTSs_dropping(res) ==
    LET kept == SelectSeq(res, LAMBDA x : ~x.flag)
    IN  [i \in 1 .. Len(kept) |-> kept[i].TS]

\* list(zip(*[...])): the vessels, and the flags, of the handlers' results
CollectTSs(res) == [i \in 1 .. Len(res) |-> res[i].TS]

CollectFlags(res) == [i \in 1 .. Len(res) |-> res[i].flag]

CollectMapFlags(res) == [i \in 1 .. Len(res) |-> res[i].map_flag]

\* the vessels as TS._upd_dynamics left them
CollectAdv(res) == [i \in 1 .. Len(res) |-> res[i].adv]

SlotResults(A, S) ==
    UNION {{[TS |-> r.TS, flag |-> r.flag, map_flag |-> r.map_flag, adv |-> a] :
               r \in UNION {RespawnPass(m, S) : m \in MapPass(a, S)}} : a \in A}

------------------------------------------------------------------------------
(* FossenEnv._calculate_reward, FossenEnv._done *)

RECURSIVE r_coll_sum_inclusive(_, _)
\* the collision penalty applied at the safety distance too
r_coll_sum_inclusive(TSs_, n) ==
    IF n = 0 THEN 0
    ELSE r_coll_sum_inclusive(TSs_, n - 1)
         - GaussTerm(TSs_[n].EDsq4)
         - (IF TSs_[n].EDsq4 <= safety_dist_x2 * safety_dist_x2
            THEN 10 * Unit ELSE 0)

RECURSIVE r_coll_sum(_, _)
r_coll_sum(TSs_, n) ==
    IF n = 0 THEN 0
    ELSE r_coll_sum(TSs_, n - 1)
         - GaussTerm(TSs_[n].EDsq4)
         - (IF TSs_[n].EDsq4 < safety_dist_x2 * safety_dist_x2
            THEN 10 * Unit ELSE 0)

RECURSIVE r_COLREG_sum_any_side(_, _, _, _, _)
\* the penalty applied whatever the bearing of the target
r_COLREG_sum_any_side(TSs_, flags, cur, old, n) ==
    IF n = 0 THEN 0
    ELSE r_COLREG_sum_any_side(TSs_, flags, cur, old, n - 1)
         - (IF /\ ~flags[n]
               /\ cur[n] # old[n]
               /\ old[n] \in {1, 2, 3}
            THEN 10 * Unit ELSE 0)

RECURSIVE r_COLREG_sum(_, _, _, _, _)
r_COLREG_sum(TSs_, flags, cur, old, n) ==
    IF n = 0 THEN 0
    ELSE r_COLREG_sum(TSs_, flags, cur, old, n - 1)
         - (IF /\ ~flags[n]
               /\ cur[n] # old[n]
               /\ old[n] \in {1, 2, 3}
               /\ 0 <= TSs_[n].bng_OS /\ TSs_[n].bng_OS <= 360
            THEN 10 * Unit ELSE 0)

\* the sum without the leave-the-map term
Total_without_map(c) ==
    [c EXCEPT !.r = 1 * c.r_dist + 1 * c.r_head + 1 * c.r_coll
                    + 1 * c.r_COLREG]

\* the weighted sum, w_dist = w_head = w_coll = w_COLREG = w_map = 1
Total(c) ==
    [c EXCEPT !.r = 1 * c.r_dist + 1 * c.r_head + 1 * c.r_coll
                    + 1 * c.r_COLREG + 1 * c.r_map]

\* the penalty is due only beyond the border
r_map_of_beyond(OS_) ==
    IF OS_.N < 0 \/ OS_.N > N_max \/ OS_.E < 0 \/ OS_.E > E_max
    THEN -10 * Unit ELSE 0

\* self.r_map = -10 if self.OS._is_off_map() else 0
r_map_of(OS_) == IF is_off_map(OS_) THEN -10 * Unit ELSE 0

calculate_reward(OS_, goal_, TSs_, flags, cur, old) ==
    Total([r_dist   |-> -((ISqrt(10000 * EDsq(OS_.N, OS_.E, goal_.N, goal_.E))
                           * Unit) \div (100 * E_max)),
           r_head   |-> -((Abs(angle_to_pi(OS_.bng_goal)) * Unit) \div 360),
           r_coll   |-> r_coll_sum(TSs_, Len(TSs_)),
           r_COLREG |-> r_COLREG_sum(TSs_, flags, cur, old, Len(TSs_)),
           r_map    |-> r_map_of(OS_),
           r        |-> 0])

\* the goal counts as reached only strictly inside goal_reach_dist
done_strict(OS_, goal_, cnt) ==
    IF EDsq(OS_.N, OS_.E, goal_.N, goal_.E) < goal_reach_dist * goal_reach_dist
    THEN TRUE
    ELSE IF cnt >= max_episode_steps THEN TRUE
    ELSE FALSE

done(OS_, goal_, cnt) ==
    IF EDsq(OS_.N, OS_.E, goal_.N, goal_.E) <= goal_reach_dist * goal_reach_dist
    THEN TRUE
    ELSE IF cnt >= max_episode_steps THEN TRUE
    ELSE FALSE

------------------------------------------------------------------------------
(* FossenEnv._set_state *)

\* np.nan, the default of state_pad
NaN == -1000000

state_pad == NaN

\* the entries of the own ship: nu (u, v, r), N and E relative to the map,
\* heading; and of the goal: relative bearing, distance
state_OS(OS_) ==
    <<OS_.vx, OS_.vy, 0, (OS_.N * Unit) \div N_max, (OS_.E * Unit) \div E_max,
      (OS_.psi * Unit) \div 720>>

state_goal(OS_, goal_) ==
    <<(OS_.bng_goal * Unit) \div 720,
      (ISqrt(10000 * EDsq(OS_.N, OS_.E, goal_.N, goal_.E)) * Unit)
          \div (100 * E_max)>>

\* the six entries of a target: distance, relative bearing, heading
\* intersection, speed (nu[0] of a target that makes no leeway), COLREG
\* situation, TCPA
TS_entries(TS, sigma) ==
    <<(ISqrt(TS.EDsq4 * 2500) * Unit) \div (100 * E_max),
      (TS.bng_OS * Unit) \div 720,
      (TS.C_T * Unit) \div 720,
      get_V(TS),
      sigma,
      (TS.tcpa * Unit) \div TCPA_crit>>

\* the loop over self.TSs: the entries of the targets inside the ship
\* domain, in the order of their slots
state_TSs_in_domain(OS_, TSs_, cur) ==
    LET loop[n \in 0 .. Len(TSs_)] ==
            IF n = 0 THEN <<>>
            ELSE IF InDomain(OS_, TSs_[n])
                 THEN Append(loop[n - 1], TS_entries(TSs_[n], cur[n]))
                 ELSE loop[n - 1]
    IN  loop[Len(TSs_)]

\* t = <<s, x>>: x put behind the rows of s that are at least as far away
insert_descending[t \in Seq(Seq(Int)) \X Seq(Int)] ==
    IF t[1] = <<>> THEN <<t[2]>>
    ELSE IF Head(t[1])[1] >= t[2][1]
         THEN <<Head(t[1])>> \o insert_descending[<<Tail(t[1]), t[2]>>]
         ELSE <<t[2]>> \o t[1]

\* a stable sort by the first entry, largest first
sort_descending[s \in Seq(Seq(Int))] ==
    IF s = <<>> THEN <<>>
    ELSE insert_descending[<<sort_descending[SubSeq(s, 1, Len(s) - 1)],
                             s[Len(s)]>>]

\* the targets left in the order of their slots
unsorted(rows) == rows

\* sorted(state_TSs, key=lambda x: x[0], reverse=True)
sorted_reverse(rows) == sort_descending[rows]

\* state_TSs.flatten(order="C")
flatten[s \in Seq(Seq(Int))] ==
    IF s = <<>> THEN <<>> ELSE Head(s) \o flatten[Tail(s)]

\* np.pad(..., 'constant', constant_values=self.state_pad) at the right
pad_right[s \in Seq(Int)] ==
    s \o [i \in 1 .. (6 * N_TSs - Len(s)) |-> state_pad]

\* with no target inside the domain the dummy state, else the targets
\* sorted, flattened and padded
state_TSs[rows \in Seq(Seq(Int))] ==
    IF Len(rows) = 0
    THEN [i \in 1 .. 6 * N_TSs |-> state_pad]
    ELSE pad_right[flatten[sorted_reverse(rows)]]

set_state(OS_, goal_, TSs_, cur) ==
    state_OS(OS_) \o state_goal(OS_, goal_) \o
    state_TSs[state_TSs_in_domain(OS_, TSs_, cur)]

------------------------------------------------------------------------------
(* CyberShipII._control *)

\* spaces.Discrete(3), the actions of the control approach 'tau'
action_space == 0 .. 2

\* the collaborator rejects an action outside the action space
control_raises(a) == a \notin action_space

------------------------------------------------------------------------------
(* The simulator *)

VARIABLES
    started,         \* reset() has been called on this instance
    step_cnt,        \* self.step_cnt
    sim_t,           \* self.sim_t, in half-seconds
    goal,            \* self.goal
    OS,              \* self.OS
    TSs,             \* self.TSs
    respawn_flags,   \* self.respawn_flags (no such attribute before a step)
    TS_COLREGs,      \* self.TS_COLREGs
    TS_COLREGs_old,  \* self.TS_COLREGs_old
    rew,             \* self.r, r_dist, r_head, r_coll, r_COLREG, r_map
    d,               \* the done flag the last step call returned
    map_flags,       \* self.respawn_flags as _handle_map_leaving's pass
                     \* left it, before _handle_respawn's pass replaced it
    done_seen,       \* history: a step call of this episode returned done
    query,           \* a direct call of _get_COLREG_situation and its result
    state,           \* self.state, the observation
    ret_r,           \* the reward the last step call returned
    err,             \* the error the last call raised, "none" if it returned
    TSs_adv,         \* history: the targets as the dynamics of the last step
                     \* left them, before the two handlers
    call,            \* history: the last call, <<"reset">> or <<"step", a>>
    np_random,       \* the state of numpy's global generator, per process
    py_random,       \* the state of Python's random module, per process
    envs,            \* what the instances A, B (process 1) and A2 (process
                     \* 2) drew: goal, heading, target spawns
    calls            \* the calls made so far on A (and A2), and on B

vars == <<started, step_cnt, sim_t, goal, OS, TSs, respawn_flags, TS_COLREGs,
          TS_COLREGs_old, rew, d, map_flags, done_seen, query, state, ret_r,
          err, TSs_adv, call, np_random, py_random, envs, calls>>

simvars == <<started, step_cnt, sim_t, goal, OS, TSs, respawn_flags,
             TS_COLREGs, TS_COLREGs_old, rew, d, map_flags, done_seen, state,
             ret_r, err, TSs_adv, call>>

rngvars == <<np_random, py_random, envs, calls>>

\* FossenEnv.__init__
Init ==
    /\ started = FALSE
    /\ step_cnt = 0
    /\ sim_t = 0
    /\ goal = [N |-> 0, E |-> 0]
    /\ OS = [N |-> 0, E |-> 0, psi |-> 0, vx |-> 0, vy |-> 0, bng_goal |-> 0]
    /\ TSs = <<>>
    /\ respawn_flags = <<>>
    /\ TS_COLREGs = <<>>
    /\ TS_COLREGs_old = <<>>
    /\ rew = [r |-> 0, r_head |-> 0, r_dist |-> 0, r_coll |-> 0, r_COLREG |-> 0]
    /\ d = FALSE
    /\ map_flags = <<>>
    /\ done_seen = FALSE
    /\ query = <<>>
    /\ state = <<>>
    /\ ret_r = 0
    /\ err = "none"
    /\ TSs_adv = <<>>
    /\ call = <<>>
    /\ np_random = <<0, 0>>
    /\ py_random = <<0, 0>>
    /\ envs = [e \in {"A", "B", "A2"} |-> <<>>]
    /\ calls = [A |-> 0, B |-> 0]

\* the own ship starts in the corner of the map the goals are drawn in
OS_init_goal_corner == [N |-> N_max - N_max \div 5, E |-> E_max - E_max \div 5]

\* N_init = self.N_max / 5, E_init = self.E_max / 5
OS_init == [N |-> N_max \div 5, E |-> E_max \div 5]

\* FossenEnv.reset: G the goals np.random.uniform may draw, O the own ship's
\* initial heading, converged velocity and goal bearing, S the vessels
\* _get_TS may return
Reset(G, O, S) ==
    \E g \in G, o \in O, ts \in [Slots -> S] :
        LET OS0 == [N |-> OS_init.N, E |-> OS_init.E, psi |-> o.psi,
                    vx |-> o.vx, vy |-> o.vy, bng_goal |-> o.bng_goal]
            TSs0 == [i \in Slots |-> ts[i]]
        IN  /\ started' = TRUE
            /\ step_cnt' = 0
            /\ sim_t' = 0
            /\ goal' = g
            /\ OS' = OS0
            /\ TSs' = TSs0
            /\ TS_COLREGs_old' = [i \in Slots |-> 0]
            /\ TS_COLREGs' = set_COLREGs(OS0, TSs0)
            /\ state' = set_state(OS0, g, TSs0, TS_COLREGs')
            /\ d' = FALSE
            /\ done_seen' = FALSE
            /\ err' = "none"
            /\ call' = <<"reset">>
            /\ UNCHANGED <<respawn_flags, map_flags, rew, query, ret_r, TSs_adv>>
            /\ UNCHANGED rngvars

\* the call is counted before the action reaches self.OS._control
StepRaises_counted(a) ==
    /\ control_raises(a)
    /\ err' = "InvalidAction"
    /\ call' = <<"step", a>>
    /\ step_cnt' = step_cnt + 1
    /\ sim_t' = sim_t + delta_t
    /\ UNCHANGED <<started, goal, OS, TSs, respawn_flags, TS_COLREGs,
                   TS_COLREGs_old, rew, d, map_flags, done_seen, query, state,
                   ret_r, TSs_adv>>

\* FossenEnv.step when self.OS._control(a), its first statement, raises
StepRaises(a) ==
    /\ control_raises(a)
    /\ err' = "InvalidAction"
    /\ call' = <<"step", a>>
    /\ UNCHANGED <<started, step_cnt, sim_t, goal, OS, TSs, respawn_flags,
                   TS_COLREGs, TS_COLREGs_old, rew, d, map_flags, done_seen,
                   query, state, ret_r, TSs_adv>>

\* self.OS._upd_dynamics() leaves the own ship with a non-finite pose and
\* velocity: the update yields one, or the own ship has one already
upd_dynamics_nonfinite(OS_, m) == m.dN = NaN \/ OS_.N = NaN

\* the vessel _get_TS places relative to a non-finite own ship
NaN_TS == TSrec(FALSE, NaN, NaN, NaN, NaN, NaN, NaN, NaN)

\* a target as seen from a non-finite own ship: distance, bearings, heading
\* intersection and TCPA are NaN
seen_from_NaN(a) ==
    [a EXCEPT !.tcpa = NaN, !.EDsq4 = NaN, !.bng_OS = NaN, !.bng_TS = NaN,
              !.C_T = NaN]

\* FossenEnv.step from l.409 on with a non-finite own ship. Every comparison
\* with NaN is False: the own ship is not clipped; a target off the map is
\* respawned, none by its TCPA; no situation is classified; no target is
\* inside the ship domain; r_dist, r_head, r_coll and r are NaN; _done is left
\* with the step limit. The call returns.
StepNonFinite(A) ==
    \E adv \in [Slots -> A] :
        /\ OS' = [N |-> NaN, E |-> NaN, psi |-> NaN, vx |-> NaN, vy |-> NaN,
                  bng_goal |-> NaN]
        /\ TSs_adv' = [i \in Slots |-> adv[i]]
        /\ TSs' = [i \in Slots |-> IF is_off_map(adv[i]) THEN NaN_TS
                                    ELSE seen_from_NaN(adv[i])]
        /\ map_flags' = [i \in Slots |-> is_off_map(adv[i])]
        /\ respawn_flags' = [i \in Slots |-> FALSE]
        /\ TS_COLREGs_old' = TS_COLREGs
        /\ TS_COLREGs' = [i \in Slots |-> 0]
        /\ state' = [i \in 1 .. 8 |-> NaN] \o [i \in 1 .. 6 * N_TSs |-> state_pad]
        /\ rew' = [r_dist |-> NaN, r_head |-> NaN, r_coll |-> NaN,
                   r_COLREG |-> 0, r_map |-> 0, r |-> NaN]
        /\ d' = (step_cnt >= max_episode_steps)
        /\ step_cnt' = step_cnt + 1
        /\ sim_t' = sim_t + delta_t
        /\ done_seen' = (done_seen \/ d')
        /\ ret_r' = NaN
        /\ err' = "none"
        /\ UNCHANGED <<started, goal, query>>

\* the phases in another order: the targets are classified, observed and
\* scored as advanced, before the own ship is clamped and the targets are
\* respawned, and the counters are advanced before the termination test
tick_scored_early(OSadv, res, goal_, cur, clock) ==
    LET TSs_a  == CollectAdv(res)
        COLREG == set_COLREGs(OSadv, TSs_a)
        flags  == CollectFlags(res)
        OS_    == handle_map_leaving(OSadv, FALSE, FALSE, TRUE, OSadv)[1]
    IN  [OS |-> OS_,
         TSs_adv |-> TSs_a,
         TSs |-> CollectTSs(res),
         map_flags |-> CollectMapFlags(res),
         respawn_flags |-> flags,
         TS_COLREGs_old |-> cur,
         TS_COLREGs |-> COLREG,
         state |-> set_state(OSadv, goal_, TSs_a, COLREG),
         rew |-> calculate_reward(OSadv, goal_, TSs_a, flags, COLREG, cur),
         d |-> done(OS_, goal_, clock.step_cnt + 1),
         step_cnt |-> clock.step_cnt + 1,
         sim_t |-> clock.sim_t + delta_t]

\* the phases of a step after the action is applied, in the order of the
\* statements of FossenEnv.step: the advanced own ship OSadv is clamped
\* (l.409), the targets are advanced (l.412) and respawned by the two
\* handlers (l.415-417, res), then _set_COLREGs (l.420), _set_state (l.423),
\* _calculate_reward (l.424) and _done (l.425), and last the counters
\* (l.428-429)
tick(OSadv, res, goal_, cur, clock) ==
    LET OS_    == handle_map_leaving(OSadv, FALSE, FALSE, TRUE, OSadv)[1]
        TSs_a  == CollectAdv(res)
        TSs_   == CollectTSs(res)
        flags  == CollectFlags(res)
        COLREG == set_COLREGs(OS_, TSs_)
    IN  [OS |-> OS_,
         TSs_adv |-> TSs_a,
         TSs |-> TSs_,
         map_flags |-> CollectMapFlags(res),
         respawn_flags |-> flags,
         TS_COLREGs_old |-> cur,
         TS_COLREGs |-> COLREG,
         state |-> set_state(OS_, goal_, TSs_, COLREG),
         rew |-> calculate_reward(OS_, goal_, TSs_, flags, COLREG, cur),
         d |-> done(OS_, goal_, clock.step_cnt),
         step_cnt |-> clock.step_cnt + 1,
         sim_t |-> clock.sim_t + delta_t]

\* the step moves the goal to the northing of the own ship
step_unassigned_goal_moved ==
    /\ goal' = [goal EXCEPT !.N = OS'.N]
    /\ UNCHANGED <<started, query>>

\* what no statement of FossenEnv.step assigns: the goal (and the settings
\* of __init__, which are definitions here)
step_unassigned == UNCHANGED <<started, goal, query>>

\* FossenEnv.step: M what the control action and one update of the dynamics
\* can do to the own ship, A the target vessels one update of the dynamics
\* can produce, S the vessels _get_TS may return
StepBody(M, A, S) ==
    /\ started
    /\ step_cnt < max_episode_steps + ExtraSteps
    /\ UNCHANGED rngvars
    /\ \E m \in M :
        \/ StepRaises(m.a)
        \/ /\ ~control_raises(m.a)
           /\ upd_dynamics_nonfinite(OS, m)
           /\ call' = <<"step", m.a>>
           /\ StepNonFinite(A)
        \/ /\ ~control_raises(m.a)
           /\ ~upd_dynamics_nonfinite(OS, m)
           /\ call' = <<"step", m.a>>
           /\ \E res \in [Slots -> SlotResults(A, S)] :
            LET OSadv == [N |-> OS.N + m.dN, E |-> OS.E + m.dE, psi |-> m.psi,
                          vx |-> m.vx, vy |-> m.vy, bng_goal |-> m.bng_goal]
            IN  \E tk \in {tick(OSadv, res, goal, TS_COLREGs,
                              [step_cnt |-> step_cnt, sim_t |-> sim_t])} :
                /\ OS' = tk.OS
                /\ TSs_adv' = tk.TSs_adv
                /\ TSs' = tk.TSs
                /\ map_flags' = tk.map_flags
                /\ respawn_flags' = tk.respawn_flags
                /\ TS_COLREGs_old' = tk.TS_COLREGs_old
                /\ TS_COLREGs' = tk.TS_COLREGs
                /\ state' = tk.state
                /\ rew' = tk.rew
                /\ d' = tk.d
                /\ step_cnt' = tk.step_cnt
                /\ sim_t' = tk.sim_t
                /\ done_seen' = (done_seen \/ d')
                /\ ret_r' = rew'.r
                /\ err' = "none"
                /\ step_unassigned

\* a step that is refused once an episode has returned done
Step_refusing(M, A, S) == ~d /\ StepBody(M, A, S)

Step(M, A, S) == StepBody(M, A, S)

------------------------------------------------------------------------------
(* The vessels and moves of the specifications *)

\* velocity of the own ship: 0.4 m/s due north
OwnStates == {[psi |-> 0, vx |-> 0, vy |-> 4, bng_goal |-> 90]}

Goals == {[N |-> 100, E |-> 95], [N |-> 75, E |-> 75]}

\* head-on, bow to bow, just inside the safety distance
HeadOnClose == TSrec(FALSE, 5, 224, 0, 0, 360, 0, -3)

\* crossing from starboard, exactly at the safety distance
CrossAtSafety == TSrec(FALSE, 5, 225, 90, 630, 540, -3, 0)

\* crossing from port 50 m away, beyond the ship domain
PortFar == TSrec(FALSE, 20, 10000, 600, 60, 180, 3, 0)

\* has left the map
OffMap == TSrec(TRUE, 5, 10000, 90, 630, 540, -3, 0)

\* abaft the beam on port, closest approach 11 s ago
Passed == TSrec(FALSE, -11, 10000, 400, 40, 0, 0, 3)

\* on the starboard beam on a parallel course, closest approach 10 s ago
ClearStarboard == TSrec(FALSE, -10, 900, 180, 540, 0, 0, 3)

\* the encounters of a target that stays on the map
Encounters == {HeadOnClose, CrossAtSafety, PortFar, ClearStarboard, Passed}

\* the targets that leave the map or have passed, and one that stays
Leaving == {OffMap, Passed, CrossAtSafety}

\* spawned crossing from starboard, 45 s before the closest approach
SpawnCross == TSrec(FALSE, 45, 10000, 90, 630, 540, -3, 0)

\* spawned behind the own ship, already receding
SpawnReceding == TSrec(FALSE, -11, 10000, 400, 40, 0, 0, 3)

Spawned == {SpawnCross, SpawnReceding}

\* the own ship keeps its place
Hold == [a |-> 1, dN |-> 0, dE |-> 0, psi |-> 0, vx |-> 0, vy |-> 4,
         bng_goal |-> 90]

\* the own ship makes way (60 m along an axis or both) or falls back
OwnMoves ==
    {[a |-> 1, dN |-> n, dE |-> e, psi |-> 0, vx |-> 0, vy |-> 4,
      bng_goal |-> 90] :
        <<n, e>> \in {<<0, 0>>, <<60, 60>>, <<60, 0>>, <<-60, -60>>}}

\* a direct call of _get_COLREG_situation(OS, TS, distance): the call that
\* query holds is made and its result recorded
QueryCOLREG ==
    /\ query # <<>>
    /\ ~query[1].returned
    /\ query' = <<[query[1] EXCEPT
                     !.returned = TRUE,
                     !.V_OS_cos = V_OS_along(query[1].OS, query[1].TS),
                     !.result = get_COLREG_situation(query[1].OS, query[1].TS,
                                                     query[1].distance)]>>
    /\ UNCHANGED simvars
    /\ UNCHANGED rngvars

\* the calls of _get_COLREG_situation on targets Q with cutoffs D
Queries(Q, D) ==
    {[OS |-> [N |-> 0, E |-> 0, psi |-> o.psi, vx |-> o.vx, vy |-> o.vy,
              bng_goal |-> o.bng_goal],
      TS |-> ts, distance |-> dist, returned |-> FALSE, V_OS_cos |-> 0,
      result |-> 0] : o \in OwnStates, ts \in Q, dist \in D}

\* the thresholds of the classifier, their neighbours, and angles between
Angles == {0, 9, 10, 11, 134, 135, 136, 224, 225, 226, 349, 350, 351, 360,
           369, 370, 371, 494, 495, 496, 584, 585, 586, 709, 710, 711, 719}

\* the bearing from the target that the two other angles determine
consistent_bng_TS(bng_OS, C_T) == (bng_OS + 360 - C_T) % 720

\* targets 10 m away on every pair of angles, slower than, as fast as, and
\* faster than the own ship along their course, or on an opposite course
QueryTSs ==
    {TSrec(FALSE, 0, 400, bO, bT, ct, 0, v) :
        bO \in Angles, ct \in Angles, bT \in {0, 224, 360, 496}, v \in {3, 4, 5}}
    \cup
    {TSrec(FALSE, 0, 400, bO, consistent_bng_TS(bO, ct), ct, 0, v) :
        bO \in Angles, ct \in Angles, v \in {-3, 3, 4}}

------------------------------------------------------------------------------
(* Specifications *)

\* the targets in all their encounters, the own ship holding its place
ResetTS == Reset({[N |-> 100, E |-> 95]}, OwnStates, {SpawnCross})

StepTS == step_cnt < StepsTS /\ Step({Hold}, Encounters, {SpawnCross})

Next == ResetTS \/ StepTS

Spec == Init /\ [][Next]_vars

\* the targets leaving the map and passing, respawned by either handler
ResetRS == Reset({[N |-> 100, E |-> 95]}, OwnStates, Spawned)

StepRS == step_cnt < StepsTS /\ Step({Hold}, Leaving, Spawned)

NextRS == ResetRS \/ StepRS

SpecRS == Init /\ [][NextRS]_vars

\* the targets at either condition of a respawn, and at its boundary
Receding == {OffMap, Passed, ClearStarboard, CrossAtSafety}

ResetRP == Reset({[N |-> 100, E |-> 95]}, OwnStates, Spawned)

StepRP == step_cnt < StepsTS /\ Step({Hold}, Receding, {SpawnCross})

NextRP == ResetRP \/ StepRP

SpecRP == Init /\ [][NextRP]_vars

\* the own ship holding its course under an action of the action space, and
\* the calls with an action index outside it
Controls == {Hold} \cup {[Hold EXCEPT !.a = a] : a \in {-1, 3}}

ResetCtl == Reset(Goals, OwnStates, {SpawnCross})

StepCtl == Step(Controls, {CrossAtSafety, OffMap}, {SpawnCross})

NextCtl == ResetCtl \/ StepCtl

SpecCtl == Init /\ [][NextCtl]_vars

\* the update of the dynamics yields a non-finite pose and velocity
Diverge == [Hold EXCEPT !.dN = NaN, !.dE = NaN, !.vx = NaN, !.vy = NaN]

ResetNaN == Reset(Goals, OwnStates, {SpawnCross})

StepNaN == Step({Hold, Diverge}, {CrossAtSafety, OffMap, Passed}, {SpawnCross})

NextNaN == ResetNaN \/ StepNaN

SpecNaN == Init /\ [][NextNaN]_vars

\* the own ship under way to either goal, among plain targets
ResetOS == Reset(Goals, OwnStates, {SpawnCross})

StepOS == Step(OwnMoves, {CrossAtSafety, OffMap}, {SpawnCross})

NextOS == ResetOS \/ StepOS

SpecOS == Init /\ [][NextOS]_vars

\* head-on and close, just across the border of the map
OffMapClose == TSrec(TRUE, 5, 224, 0, 0, 360, 0, -3)

\* the own ship under way and clamped, a close target leaving the map
ResetTick == Reset({[N |-> 100, E |-> 95]}, OwnStates, {SpawnCross})

StepTick == Step(OwnMoves, {CrossAtSafety, OffMapClose}, {SpawnCross})

NextTick == ResetTick \/ StepTick

SpecTick == Init /\ [][NextTick]_vars

\* the classifier alone, on one call
InitCOLREG ==
    /\ started = FALSE
    /\ step_cnt = 0
    /\ sim_t = 0
    /\ goal = [N |-> 0, E |-> 0]
    /\ OS = [N |-> 0, E |-> 0, psi |-> 0, vx |-> 0, vy |-> 0, bng_goal |-> 0]
    /\ TSs = <<>>
    /\ respawn_flags = <<>>
    /\ TS_COLREGs = <<>>
    /\ TS_COLREGs_old = <<>>
    /\ rew = [r |-> 0, r_head |-> 0, r_dist |-> 0, r_coll |-> 0, r_COLREG |-> 0]
    /\ d = FALSE
    /\ map_flags = <<>>
    /\ done_seen = FALSE
    /\ query \in {<<q>> : q \in Queries(QueryTSs, {NoCutoff, 5, 10})}
    /\ state = <<>>
    /\ ret_r = 0
    /\ err = "none"
    /\ TSs_adv = <<>>
    /\ call = <<>>
    /\ np_random = <<0, 0>>
    /\ py_random = <<0, 0>>
    /\ envs = [e \in {"A", "B", "A2"} |-> <<>>]
    /\ calls = [A |-> 0, B |-> 0]

NextCOLREG == QueryCOLREG

SpecCOLREG == InitCOLREG /\ [][NextCOLREG]_vars

------------------------------------------------------------------------------
(* The random draws of reset and _get_TS *)

\* the states of a generator, a stand-in for the Mersenne Twister's
RngMod == 16

\* the calls made on the instances of one run
MaxCalls == 3

\* one draw advances the generator; the generator is a function of its state
np_next(s) == (5 * s + 1) % RngMod

py_next(q) == (q + 2) % 5

\* np.random.uniform(lo, hi), read off the state the draw leaves
uniform(s, lo, hi) == lo + ((hi - lo) * s) \div RngMod

\* the situation is used as random.choice sampled it
COLREG_s_sampled(choice) == choice

\* COLREG_s = random.choice([0, 1, 2, 3, 4]); COLREG_s = 2
COLREG_s(choice) == 2

\* _get_TS(spawn_mode="line") with np.random in state s and random in state
\* q: the vessel by the sampled quantities that fix its pose and speed, and
\* the generators as the call leaves them: for situation 0 the vessel as
\* initialised, for 1, 2, 3 a heading sampled for the situation, for 4 none.
\* Angles in half-degrees.
get_TS(s, q) ==
    LET d1  == np_next(s)          \* N_init
        d2  == np_next(d1)         \* E_init
        d3  == np_next(d2)         \* psi_init
        d4  == np_next(d3)         \* tau_u
        q1  == py_next(q)          \* random.choice
        sit == COLREG_s(q1)
        d5  == np_next(d4)         \* t_hit
        d6  == np_next(d5)         \* C_TS_s
    IN  IF sit = 0
        THEN [TS |-> [sit |-> 0, tau_u |-> uniform(d4, 0, 5),
                      N |-> uniform(d1, N_max \div 5, N_max),
                      E |-> uniform(d2, E_max \div 5, E_max),
                      psi |-> uniform(d3, 0, 720)],
              np |-> d4, py |-> q1]
        ELSE IF sit \in {1, 2, 3}
        THEN [TS |-> [sit |-> sit, tau_u |-> uniform(d4, 0, 5),
                      t_hit |-> uniform(d5, TCPA_crit \div 2, TCPA_crit),
                      C_TS_s |-> IF sit = 1 THEN uniform(d6, 350, 370)
                                 ELSE IF sit = 2 THEN uniform(d6, 370, 585)
                                 ELSE uniform(d6, 135, 350)],
              np |-> d6, py |-> q1]
        ELSE [TS |-> [sit |-> sit, tau_u |-> uniform(d4, 0, 5),
                      t_hit |-> uniform(d5, TCPA_crit \div 2, TCPA_crit)],
              np |-> d5, py |-> q1]

\* t = <<k, s, q>>: k calls of _get_TS in a row
get_TSs[t \in Nat \X Nat \X Nat] ==
    IF t[1] = 0 THEN [TSs |-> <<>>, np |-> t[2], py |-> t[3]]
    ELSE LET one  == get_TS(t[2], t[3])
             rest == get_TSs[<<t[1] - 1, one.np, one.py>>]
         IN  [TSs |-> <<one.TS>> \o rest.TSs, np |-> rest.np, py |-> rest.py]

\* reset: the goal, the heading of the own ship, the targets; respawns
\* counts the targets replaced since
env_reset(s, q) ==
    LET d1 == np_next(s)
        d2 == np_next(d1)
        d3 == np_next(d2)
        sp == get_TSs[<<N_TSs, d3, q>>]
    IN  [env |-> [goal |-> [N |-> uniform(d1, N_max - 25, N_max),
                            E |-> uniform(d2, E_max - 25, E_max)],
                  psi  |-> uniform(d3, 0, 180),
                  TSs  |-> sp.TSs,
                  step_cnt |-> 0,
                  respawns |-> 0],
         np |-> sp.np, py |-> sp.py]

\* one pass of a handler over the slots from n on, the targets of the slots
\* in due replaced by _get_TS()
RECURSIVE respawn_pass(_, _, _, _, _)
respawn_pass(TSs_, due, n, s, q) ==
    IF n > Len(TSs_) THEN [TSs |-> TSs_, np |-> s, py |-> q]
    ELSE IF n \in due
         THEN LET one == get_TS(s, q)
              IN  respawn_pass([TSs_ EXCEPT ![n] = one.TS], due, n + 1,
                               one.np, one.py)
         ELSE respawn_pass(TSs_, due, n + 1, s, q)

\* step: the pass of _handle_map_leaving, then the pass of _handle_respawn;
\* due = <<the slots off the map, the slots with a TCPA below -10 s>>
env_step(e, due, s, q) ==
    LET p1 == respawn_pass(e.TSs, due[1], 1, s, q)
        p2 == respawn_pass(p1.TSs, due[2], 1, p1.np, p1.py)
    IN  [env |-> [e EXCEPT !.TSs = p2.TSs, !.step_cnt = e.step_cnt + 1,
                           !.respawns = e.respawns + Cardinality(due[1])
                                        + Cardinality(due[2])],
         np |-> p2.np, py |-> p2.py]

\* the targets due in a step: none, the first leaves the map, the last has
\* passed
Dues == {<<{}, {}>>, <<{1}, {}>>, <<{}, {N_TSs}>>}

\* two processes seeded alike for numpy; random is not seeded
InitRNG ==
    /\ started = FALSE
    /\ step_cnt = 0
    /\ sim_t = 0
    /\ goal = [N |-> 0, E |-> 0]
    /\ OS = [N |-> 0, E |-> 0, psi |-> 0, vx |-> 0, vy |-> 0, bng_goal |-> 0]
    /\ TSs = <<>>
    /\ respawn_flags = <<>>
    /\ TS_COLREGs = <<>>
    /\ TS_COLREGs_old = <<>>
    /\ rew = [r |-> 0, r_head |-> 0, r_dist |-> 0, r_coll |-> 0, r_COLREG |-> 0]
    /\ d = FALSE
    /\ map_flags = <<>>
    /\ done_seen = FALSE
    /\ query = <<>>
    /\ state = <<>>
    /\ ret_r = 0
    /\ err = "none"
    /\ TSs_adv = <<>>
    /\ call = <<>>
    /\ \E seed \in {0, 7} : np_random = <<seed, seed>>
    /\ py_random \in {<<0, 0>>, <<0, 1>>, <<3, 1>>}
    /\ envs = [e \in {"A", "B", "A2"} |-> <<>>]
    /\ calls = [A |-> 0, B |-> 0]

\* A.reset() in process 1, next to B, and A2.reset() in process 2, alone
ResetA ==
    /\ calls.A + calls.B < MaxCalls
    /\ LET r1 == env_reset(np_random[1], py_random[1])
           r2 == env_reset(np_random[2], py_random[2])
       IN  /\ envs' = [envs EXCEPT !["A"] = r1.env, !["A2"] = r2.env]
           /\ np_random' = <<r1.np, r2.np>>
           /\ py_random' = <<r1.py, r2.py>>
    /\ calls' = [calls EXCEPT !.A = calls.A + 1]
    /\ UNCHANGED <<simvars, query>>

\* A.step(a) and A2.step(a), the same targets due in both
StepA ==
    /\ calls.A + calls.B < MaxCalls
    /\ envs["A"] # <<>>
    /\ \E due \in Dues :
        LET r1 == env_step(envs["A"], due, np_random[1], py_random[1])
            r2 == env_step(envs["A2"], due, np_random[2], py_random[2])
        IN  /\ envs' = [envs EXCEPT !["A"] = r1.env, !["A2"] = r2.env]
            /\ np_random' = <<r1.np, r2.np>>
            /\ py_random' = <<r1.py, r2.py>>
    /\ calls' = [calls EXCEPT !.A = calls.A + 1]
    /\ UNCHANGED <<simvars, query>>

\* B.reset() in process 1
ResetB ==
    /\ calls.A + calls.B < MaxCalls
    /\ LET r1 == env_reset(np_random[1], py_random[1])
       IN  /\ envs' = [envs EXCEPT !["B"] = r1.env]
           /\ np_random' = <<r1.np, np_random[2]>>
           /\ py_random' = <<r1.py, py_random[2]>>
    /\ calls' = [calls EXCEPT !.B = calls.B + 1]
    /\ UNCHANGED <<simvars, query>>

\* B.step(a) in process 1
StepB ==
    /\ calls.A + calls.B < MaxCalls
    /\ envs["B"] # <<>>
    /\ \E due \in Dues :
        LET r1 == env_step(envs["B"], due, np_random[1], py_random[1])
        IN  /\ envs' = [envs EXCEPT !["B"] = r1.env]
            /\ np_random' = <<r1.np, np_random[2]>>
            /\ py_random' = <<r1.py, py_random[2]>>
    /\ calls' = [calls EXCEPT !.B = calls.B + 1]
    /\ UNCHANGED <<simvars, query>>

NextRNG == ResetA \/ StepA \/ ResetB \/ StepB

SpecRNG == InitRNG /\ [][NextRNG]_vars

-------------------------------------------------------------------------------
(* Properties *)

\* C1: after reset and after every step the simulator holds exactly N_TSs
\* target vessels; a respawn, by map leaving, by TCPA or by both in the same
\* slot, replaces the vessel in its slot.
C1_TargetCount == started => Len(TSs) = N_TSs

\* C1, the case: a step in which one slot was respawned by both handlers
C1_BothRespawns ==
    /\ started /\ step_cnt > 0
    /\ \E i \in Slots : map_flags[i] /\ respawn_flags[i]
    /\ Len(TSs) = N_TSs

OS_goal_EDsq == EDsq(OS.N, OS.E, goal.N, goal.E)

\* C2: a step that leaves the clamped own ship at a distance to the goal of
\* at most goal_reach_dist returns done = True itself; a distance equal to
\* goal_reach_dist terminates.
C2_GoalReachedSameStep ==
    (started /\ step_cnt > 0 /\ OS_goal_EDsq <= goal_reach_dist * goal_reach_dist)
        => d

\* C2, the case: a step before the step limit ends exactly goal_reach_dist
\* from the goal and returns done
C2_ExactlyAtReach ==
    /\ started /\ step_cnt > 0 /\ step_cnt <= max_episode_steps
    /\ OS_goal_EDsq = goal_reach_dist * goal_reach_dist
    /\ d

\* C3: every episode ends within max-episode-steps step calls: when the
\* number of step calls since reset has reached the maximum, a step call of
\* the episode has returned done = True.
C3_EndsWithinMaxSteps ==
    (started /\ step_cnt = max_episode_steps) => done_seen

\* C4, as claimed: once a step call has returned done = True, no further
\* step call advances the step counter before the next reset.
C4_NoStepAfterDone == [][d => step_cnt' # step_cnt + 1]_vars

\* C4, amended: step is not guarded by termination. After a step call has
\* returned done = True a further step call is accepted and runs like any
\* other: it advances step counter and elapsed time, shifts the
\* classification history and returns the done flag of _done.
C4_StepAfterDoneRuns ==
    /\ [](started /\ d /\ step_cnt < max_episode_steps + ExtraSteps
            => ENABLED StepOS)
    /\ [][(d /\ step_cnt' # 0) =>
            /\ step_cnt' = step_cnt + 1
            /\ sim_t' = sim_t + delta_t
            /\ TS_COLREGs_old' = TS_COLREGs
            /\ d' = done(OS', goal, step_cnt)]_vars

\* C4, the case: a step call has run after the step limit ended the episode
C4_SteppedAfterDone ==
    /\ started /\ d
    /\ step_cnt = max_episode_steps + 2
    /\ sim_t = step_cnt * delta_t

\* C5: every slot whose vessel was replaced during a step, by map leaving or
\* by TCPA, has its just-respawned flag set when the reward of that step is
\* computed.
C5_ReplacedIsFlagged ==
    (started /\ step_cnt > 0) =>
        \A i \in Slots : (map_flags[i] \/ respawn_flags[i]) => respawn_flags[i]

\* the call that query holds has returned and its cutoff let the target pass
Classified ==
    /\ query # <<>>
    /\ query[1].returned
    /\ \/ query[1].distance = NoCutoff
       \/ query[1].TS.EDsq4 <= 4 * query[1].distance * query[1].distance

\* the bands of the four encounters, in half-degrees
HeadOnBand(bO, ct) == (bO <= 10 \/ bO >= 710) /\ 350 <= ct /\ ct <= 370

StarboardBand(bO, ct) == 10 <= bO /\ bO <= 225 /\ 370 <= ct /\ ct <= 585

PortsideBand(bO, ct) == 495 <= bO /\ bO <= 710 /\ 135 <= ct /\ ct <= 350

OvertakingBand(bT, ct, proj, V_TS) ==
    225 <= bT /\ bT <= 495 /\ (ct <= 135 \/ ct >= 585) /\ proj > V_TS

\* C6: the classifier returns the first matching encounter in the order
\* HeadOn, StarboardCrossing, PortsideCrossing, Overtaking, else None; a
\* target dead ahead with C_T = 180 is HeadOn, and the tie at bng_OS = 5,
\* C_T = 185 resolves to HeadOn.
C6_FirstMatch ==
    Classified =>
        LET q  == query[1]
            bO == q.TS.bng_OS
            ct == q.TS.C_T
        IN  /\ q.result =
                  IF HeadOnBand(bO, ct) THEN 1
                  ELSE IF StarboardBand(bO, ct) THEN 2
                  ELSE IF PortsideBand(bO, ct) THEN 3
                  ELSE IF OvertakingBand(q.TS.bng_TS, ct, q.V_OS_cos, get_V(q.TS))
                       THEN 4
                  ELSE 0
            /\ (bO = 0 /\ ct = 360) => q.result = 1
            /\ (bO = 10 /\ ct = 370) => q.result = 1

\* C6, the case: the tie at bng_OS = 5, C_T = 185 degrees, classified HeadOn
C6_TieAtStarboard ==
    /\ Classified
    /\ query[1].TS.bng_OS = 10 /\ query[1].TS.C_T = 370
    /\ query[1].result = 1

\* the triple of angles is one a pair of poses can produce
Consistent(TS) == TS.bng_TS = consistent_bng_TS(TS.bng_OS, TS.C_T)

\* how many of the four tests of the classifier hold of the call in query
TestsTrue ==
    LET q == query[1]
    IN  Cardinality(
          {k \in 1 .. 4 :
             \/ k = 1 /\ is_head_on(q.TS.bng_OS, q.TS.C_T)
             \/ k = 2 /\ is_starboard_crossing(q.TS.bng_OS, q.TS.C_T)
             \/ k = 3 /\ is_portside_crossing(q.TS.bng_OS, q.TS.C_T)
             \/ k = 4 /\ is_overtaking(q.TS.bng_TS, q.TS.C_T, q.V_OS_cos,
                                       get_V(q.TS))})

\* C7, as claimed: for every geometrically consistent triple of angles,
\* the boundary values included, at most one of the four encounter tests
\* holds.
C7_MutuallyExclusive ==
    (Classified /\ Consistent(query[1].TS)) => TestsTrue <= 1

\* C7, amended: for every geometrically consistent triple at most one of the
\* four tests holds, except at bng_OS = 5, C_T = 185 degrees, where HeadOn
\* and StarboardCrossing both hold, and at bng_OS = 355, C_T = 175 degrees,
\* where HeadOn and PortsideCrossing both hold; there the result is HeadOn.
C7_ExclusiveButCorners ==
    (Classified /\ Consistent(query[1].TS)) =>
        LET q  == query[1]
            bO == q.TS.bng_OS
            ct == q.TS.C_T
        IN  \/ TestsTrue <= 1
            \/ /\ TestsTrue = 2
               /\ is_head_on(bO, ct)
               /\ \/ bO = 10 /\ ct = 370 /\ is_starboard_crossing(bO, ct)
                  \/ bO = 710 /\ ct = 350 /\ is_portside_crossing(bO, ct)
               /\ q.result = 1

\* C7, the case: the corner bng_OS = 355, C_T = 175 degrees, classified
C7_CornerAtPortside ==
    /\ Classified /\ Consistent(query[1].TS)
    /\ query[1].TS.bng_OS = 710 /\ query[1].TS.C_T = 350
    /\ TestsTrue = 2
    /\ query[1].result = 1

\* C8, as claimed: the classification stored for a target is None whenever
\* its distance to the own ship exceeds the ship-domain radius of the pair.
C8_NoneBeyondDomain ==
    started =>
        \A i \in Slots : ~InDomain(OS, TSs[i]) => TS_COLREGs[i] = 0

\* C8, amended: the classification stored for a target does not depend on
\* its distance: it is the classifier's result without a cutoff for the
\* target's angles and speeds, also beyond the ship-domain radius.
C8_ClassIgnoresDistance ==
    started =>
        \A i \in Slots : \A e \in {0, 225, 10000, TSs[i].EDsq4} :
            TS_COLREGs[i] =
                get_COLREG_situation(OS, [TSs[i] EXCEPT !.EDsq4 = e], NoCutoff)

\* C8, the case: a target beyond the ship domain, classified as a crossing
\* from port by a step
C8_ClassifiedBeyondDomain ==
    /\ started /\ step_cnt > 0
    /\ \E i \in Slots : ~InDomain(OS, TSs[i]) /\ TS_COLREGs[i] = 3

\* the slots a step penalises for an encounter left on the wrong side
RuleViolators ==
    {i \in Slots :
        /\ ~respawn_flags[i]
        /\ TS_COLREGs_old[i] \in {1, 2, 3}
        /\ TS_COLREGs[i] # TS_COLREGs_old[i]
        /\ TSs[i].bng_OS \in 0 .. 360}

\* C9: on every step r_rule is -10 times the number of slots that are not
\* flagged just-respawned, had a previous situation of HeadOn or a crossing,
\* have a different situation now and bear 0 to 180 degrees from the own
\* ship; so r_rule is one of 0, -10, ..., -10 * N_TSs.
C9_RuleReward ==
    (started /\ step_cnt > 0) =>
        /\ rew.r_COLREG = -10 * Unit * Cardinality(RuleViolators)
        /\ rew.r_COLREG \in {-10 * Unit * k : k \in 0 .. N_TSs}

\* C9, the case: every slot is penalised in one and the same step
C9_AllPenalised ==
    /\ started /\ step_cnt > 0
    /\ rew.r_COLREG = -10 * Unit * N_TSs
    /\ RuleViolators = Slots

\* the slots whose target is strictly inside the safety distance
Colliding ==
    {i \in Slots : TSs[i].EDsq4 < safety_dist_x2 * safety_dist_x2}

\* the multiples of -10 in r_coll: the Gaussian terms add up to less than 10
HardPenalties == (-rew.r_coll) \div (10 * Unit)

\* C10: the hard collision penalty is -10 for each target with
\* ED^2 < safety_dist^2 and nothing for a target at or beyond the safety
\* distance; the penalties add up over the targets.
C10_HardPenalty ==
    (started /\ step_cnt > 0) =>
        /\ HardPenalties = Cardinality(Colliding)
        /\ rew.r_coll <= -10 * Unit * Cardinality(Colliding)
        /\ rew.r_coll > -10 * Unit * (Cardinality(Colliding) + 1)

\* C10, the case: one target exactly at the safety distance, one just inside
C10_AtAndInside ==
    /\ started /\ step_cnt > 0
    /\ \E i, j \in Slots : TSs[i].EDsq4 = 225 /\ TSs[j].EDsq4 = 224
    /\ HardPenalties = 1

\* C11: in every state reached by reset and any number of steps the cached
\* reward components exist and satisfy r_dist <= 0, r_head <= 0, r_coll <= 0
\* and r_map in {0, -10}.
C11_RewardSigns ==
    started =>
        /\ rew.r_dist <= 0
        /\ rew.r_head <= 0
        /\ rew.r_coll <= 0
        /\ "r_map" \in DOMAIN rew
        /\ rew.r_map \in {0, -10 * Unit}

\* C12: after a step the reward it returned is the sum, all weights 1, of
\* the five components of that tick, and the five components and the total
\* kept on the simulator are the ones of that sum
C12_WeightedSum ==
    (started /\ step_cnt > 0) =>
        LET c == calculate_reward(OS, goal, TSs, respawn_flags, TS_COLREGs,
                                  TS_COLREGs_old)
        IN  /\ rew.r_dist = c.r_dist
            /\ rew.r_head = c.r_head
            /\ rew.r_coll = c.r_coll
            /\ rew.r_COLREG = c.r_COLREG
            /\ rew.r_map = c.r_map
            /\ ret_r = rew.r_dist + rew.r_head + rew.r_coll + rew.r_COLREG
                       + rew.r_map
            /\ rew.r = ret_r

\* a step returned a reward with every path-planning, collision and map
\* term at work: the own ship on the border, off its goal bearing
C12_AllTermsAtWork ==
    /\ started /\ step_cnt > 0
    /\ rew.r_map = -10 * Unit
    /\ rew.r_dist < 0 /\ rew.r_head < 0 /\ rew.r_coll < 0
    /\ ret_r = rew.r

\* C13: every step leaves the own ship inside the map, 0 <= N <= N_max and
\* 0 <= E <= E_max, as the vessel it advanced: its position the advanced
\* one clipped onto the border, its heading and velocity the advanced ones
C13_OwnShipClamped ==
    [][step_cnt' = step_cnt + 1 =>
        /\ 0 <= OS'.N /\ OS'.N <= N_max
        /\ 0 <= OS'.E /\ OS'.E <= E_max
        /\ \E m \in OwnMoves :
            OS' = [N        |-> Clip(OS.N + m.dN, 0, N_max),
                   E        |-> Clip(OS.E + m.dE, 0, E_max),
                   psi      |-> m.psi,
                   vx       |-> m.vx,
                   vy       |-> m.vy,
                   bng_goal |-> m.bng_goal]]_vars

\* the own ship clipped onto the upper border of N, having been clipped
\* onto the lower border of E before
C13_ClippedOntoBorder ==
    /\ started /\ step_cnt > 0
    /\ OS.N = N_max /\ OS.E = 0
    /\ OS.psi = 0

\* the slots of the targets no farther from the own ship than the radius of
\* their ship domain
C14_Perceived ==
    {i \in Slots : TSs[i].EDsq4 * 2500
                       <= get_ship_domain(OS, TSs[i]) * get_ship_domain(OS, TSs[i])}

\* the j-th 6-tuple behind the 8 entries of own ship and goal
C14_Tuple(j) == SubSeq(state, 8 + 6 * (j - 1) + 1, 8 + 6 * j)

C15_Due(i) == is_off_map(TSs_adv[i]) \/ TSs_adv[i].tcpa < -10

\* C15: a step replaces a target by a newly spawned vessel iff the advanced
\* target is off the map or its TCPA is below -10 s; any other target is
\* after the step the advanced vessel itself, in its slot
C15_RespawnIff ==
    (started /\ step_cnt > 0) =>
        \A i \in Slots :
            /\ (map_flags[i] \/ respawn_flags[i]) <=> C15_Due(i)
            /\ C15_Due(i) => TSs[i] \in Spawned
            /\ ~C15_Due(i) => TSs[i] = TSs_adv[i]

\* a step replaced the target that left the map and kept the one whose
\* closest approach was exactly 10 s ago
C15_KeptAtSlack ==
    /\ started /\ step_cnt > 0
    /\ is_off_map(TSs_adv[1]) /\ map_flags[1] /\ TSs[1] = SpawnCross
    /\ TSs_adv[2].tcpa = -10 /\ ~respawn_flags[2] /\ TSs[2] = ClearStarboard

\* C16: whatever calls are made on instance B, instance A has the goals, the
\* heading and the target spawns it has when B makes no call at all
C16_Independent == envs["A"] = envs["A2"]

C19_NonFiniteIsFatal ==
    /\ [](started /\ OS.N = NaN => err = "SimulationError")
    /\ [][OS.N = NaN => step_cnt' # step_cnt + 1]_vars

\* C20: after reset and after every step the current and the previous list
\* of classifications hold N_TSs entries each, entry i of the current list
\* is the classifier's result for the vessel in slot i against the own ship
\* as the call left it, and a step leaves as the previous list the list that
\* was current before it
C20_OneTickOfHistory ==
    /\ [](started =>
            /\ Len(TS_COLREGs) = N_TSs
            /\ Len(TS_COLREGs_old) = N_TSs
            /\ \A i \in Slots :
                TS_COLREGs[i] = get_COLREG_situation(OS, TSs[i], NoCutoff))
    /\ [][step_cnt' = step_cnt + 1 => TS_COLREGs_old' = TS_COLREGs]_vars

\* two steps on: the slots are classified differently from each other, and
\* the previous list differs from the current one
C20_HistoryDiffers ==
    /\ started /\ step_cnt = 2
    /\ TS_COLREGs[1] # TS_COLREGs[2]
    /\ TS_COLREGs_old # TS_COLREGs
    /\ TS_COLREGs_old # [i \in Slots |-> 0]

\* C21: whatever the state reset is called in, it replaces the whole episode
\* state: the step counter and the elapsed time are 0, the own ship is at
\* (N_max / 5, E_max / 5), there are N_TSs targets and N_TSs classifications,
\* and no reward component and no just-respawned flag of the episode before
\* is left
C21_ResetReplacesAll ==
    (started /\ call = <<"reset">>) =>
        /\ step_cnt = 0 /\ sim_t = 0
        /\ OS.N = N_max \div 5 /\ OS.E = E_max \div 5
        /\ Len(TSs) = N_TSs
        /\ Len(TS_COLREGs) = N_TSs /\ Len(TS_COLREGs_old) = N_TSs
        /\ rew = [r |-> 0, r_head |-> 0, r_dist |-> 0, r_coll |-> 0,
                  r_COLREG |-> 0]
        /\ respawn_flags = <<>>

\* C22: no step changes the goal or the number of target slots; they change
\* at reset only
C22_GoalFixedWithinEpisode ==
    [][(goal' # goal \/ Len(TSs') # Len(TSs)) => call' = <<"reset">>]_vars

\* two steps into an episode with the second goal, the own ship under way
C22_UnderWay ==
    /\ started /\ step_cnt = 2 /\ call[1] = "step"
    /\ goal = [N |-> 75, E |-> 75]
    /\ OS.N # N_max \div 5

-------------------------------------------------------------------------------
(* FossenEnv._get_TS: the pose of the spawned vessel *)

\* Positions in 1e-5 m, speeds in dm/s, times in s, angles in half-degrees,
\* sines in 1/100.

\* the spacing of the float32 values, in the units of the value cast. 2 * pi
\* is no float32 value and the float32 value nearest to it lies above it
\* (6.2831855 against 6.2831853...), as 721, the multiple of 7 nearest to 720
float32_ulp == 7

\* np.array(..., dtype=np.float32): the nearest float32 value
float32(x) == ((2 * x + float32_ulp) \div (2 * float32_ulp)) * float32_ulp

\* 100 * np.sin(a) by Bhaskara's formula, exact at the multiples of 90 degrees
np_sin(a) ==
    LET r    == a % 720
        B(x) == (400 * x * (360 - x)) \div (162000 - x * (360 - x))
    IN  IF r <= 360 THEN B(r) ELSE 0 - B(r - 360)

\* 100 * np.cos(a)
np_cos(a) == np_sin(a + 180)

\* a length of x metres
metres(x) == x * 100000

\* bng_abs: the bearing of (N1, E1) from (N0, E0), clockwise from north in
\* [0, 2 * pi), for the offsets along the eight principal directions
bng_abs(N0, E0, N1, E1) ==
    LET dN == N1 - N0
        dE == E1 - E0
    IN  CASE dE = 0 /\ dN >= 0 -> 0
          [] dE > 0 /\ dN = dE -> 90
          [] dE > 0 /\ dN = 0 -> 180
          [] dE > 0 /\ dN = 0 - dE -> 270
          [] dE = 0 /\ dN < 0 -> 360
          [] dE < 0 /\ dN = dE -> 450
          [] dE < 0 /\ dN = 0 -> 540
          [] dE < 0 /\ dN = 0 - dE -> 630

\* CyberShipII._u_from_tau_u: the surge speed a thrust converges to, a
\* monotone stand-in for the inversion of the surge dynamics
u_from_tau_u(tau_u) == ISqrt(9 * tau_u)

\* the callers hand a spawn mode of their own to _get_TS
spawn_mode_of_passed(site, mode) == mode

\* the spawn mode of a call of _get_TS: reset and the two respawn handlers
\* call self._get_TS(), which takes the default, "line"
spawn_mode_of(site, mode) == IF site = "direct" THEN mode ELSE "line"

\* the hit point of the line mode: the own ship's velocity projected on the
\* bearing of the goal, its components taken absolute, t_hit long
hit_point(OS_, goal_, t_hit) ==
    LET bng_abs_goal == bng_abs(OS_.N, OS_.E, goal_.N, goal_.E)
        vxOS      == OS_.vx
        vyOS      == OS_.vy
        vxR_unit  == np_sin(bng_abs_goal)
        vyR_unit  == np_cos(bng_abs_goal)
        vR        == vxOS * vxR_unit + vyOS * vyR_unit
        VR_goal_x == vR * np_sin(bng_abs_goal)
        VR_goal_y == vR * np_cos(bng_abs_goal)
    IN  [E |-> metres(OS_.E) + Abs(VR_goal_x) * t_hit,
         N |-> metres(OS_.N) + Abs(VR_goal_y) * t_hit]

\* the back-trace over the whole horizon TCPA_crit, whatever t_hit is
backtrace_whole_horizon(hit, VTS, head_TS_s, t_hit) ==
    [E |-> hit.E - VTS * np_sin(head_TS_s) * TCPA_crit * 100,
     N |-> hit.N - VTS * np_cos(head_TS_s) * TCPA_crit * 100]

\* the back-trace: t_hit back from the hit point against the heading (in
\* front mode the horizon is TCPA_crit)
backtrace(hit, VTS, head_TS_s, t_hit) ==
    [E |-> hit.E - VTS * np_sin(head_TS_s) * t_hit * 100,
     N |-> hit.N - VTS * np_cos(head_TS_s) * t_hit * 100]

\* the band of the intersection angle C_TS_s of a situation
C_TS_band(spawn_mode, sit) ==
    CASE sit = 1 -> 350 .. 370
      [] sit = 2 -> 370 .. 585
      [] sit = 3 -> 135 .. 350
      [] sit = 4 /\ spawn_mode = "front" ->
            {angle_to_2pi(c) : c \in (0 - 135) .. 135}
      [] OTHER -> {0}

\* _get_TS(spawn_mode) for the situation sit on the draws dr: the vessel as
\* returned, next to the locals of the call
get_TS_pose(spawn_mode, sit, OS_, goal_, dr) ==
    LET nu0  == u_from_tau_u(dr.tau_u)
        none == [raised |-> FALSE, sit |-> sit, spawn_mode |-> spawn_mode,
                 nu0 |-> nu0, tau_u |-> dr.tau_u, t_hit |-> 0,
                 hit |-> [N |-> 0, E |-> 0], at |-> [N |-> 0, E |-> 0],
                 head_TS_s |-> dr.psi_init, ref |-> 0,
                 eta |-> [N |-> dr.N_init, E |-> dr.E_init,
                          psi |-> dr.psi_init]]
    IN  IF sit = 0 THEN none
        ELSE IF spawn_mode = "front" THEN
            LET head0 == OS_.psi
                hit   == [E |-> metres(OS_.E) + OS_.vx * TCPA_crit * 10000,
                          N |-> metres(OS_.N) + OS_.vy * TCPA_crit * 10000]
                head_TS_s == angle_to_2pi(dr.C_TS_s + head0)
                VTS   == IF sit = 4 THEN dr.VTS ELSE nu0
                at    == backtrace(hit, VTS, head_TS_s, TCPA_crit)
            IN  [none EXCEPT !.nu0 = VTS, !.t_hit = TCPA_crit, !.hit = hit,
                             !.at = at, !.head_TS_s = head_TS_s,
                             !.ref = head0,
                             !.eta = [N |-> float32(at.N), E |-> float32(at.E),
                                      psi |-> float32(head_TS_s)]]
        ELSE IF sit = 4 THEN [none EXCEPT !.raised = TRUE]
        ELSE
            LET bng_abs_goal == bng_abs(OS_.N, OS_.E, goal_.N, goal_.E)
                hit   == hit_point(OS_, goal_, dr.t_hit)
                head_TS_s == angle_to_2pi(dr.C_TS_s + bng_abs_goal)
                VTS   == nu0
                at    == backtrace(hit, VTS, head_TS_s, dr.t_hit)
            IN  [none EXCEPT !.t_hit = dr.t_hit, !.hit = hit, !.at = at,
                             !.head_TS_s = head_TS_s, !.ref = bng_abs_goal,
                             !.eta = [N |-> float32(at.N), E |-> float32(at.E),
                                      psi |-> float32(head_TS_s)]]

\* the own ship and the goal at a spawn: the goal on each of the eight
\* principal bearings, the own ship making for it, across and away from it
SpawnScenes ==
    {[OS |-> [N |-> p[1], E |-> p[2], psi |-> p[3], vx |-> v[1], vy |-> v[2],
              bng_goal |-> 0],
      goal |-> [N |-> 75, E |-> 75]] :
        p \in {<<20, 20, 90>>, <<20, 75, 0>>, <<75, 20, 180>>, <<99, 51, 268>>,
               <<95, 75, 348>>, <<99, 99, 450>>, <<75, 95, 540>>,
               <<51, 99, 719>>},
        v \in {<<3, 3>>, <<0, 4>>, <<0 - 4, 0>>}}

\* the draws of one call; the initial pose is that of the constructor
SpawnDraws(spawn_mode, sit) ==
    {[tau_u |-> tau, t_hit |-> t, C_TS_s |-> c, psi_init |-> 100,
      N_init |-> metres(50), E_init |-> metres(50), VTS |-> 2] :
        tau \in {2, 4}, t \in {TCPA_crit \div 2, TCPA_crit},
        c \in C_TS_band(spawn_mode, sit)}

\* a call of _get_TS from reset, from a respawn handler, or directly with a
\* spawn mode: the vessel it returns is recorded
SpawnQuery ==
    /\ query = <<>>
    /\ \E site \in {"reset", "respawn", "direct"}, mode \in {"line", "front"},
          choice \in 0 .. 4, sc \in SpawnScenes :
        LET spawn_mode == spawn_mode_of(site, mode)
            sit        == COLREG_s(choice)
        IN  \E dr \in SpawnDraws(spawn_mode, sit) :
                query' = <<[site |-> site, OS |-> sc.OS, goal |-> sc.goal,
                            dr |-> dr, choice |-> choice,
                            TS |-> get_TS_pose(spawn_mode, sit, sc.OS,
                                               sc.goal, dr)]>>
    /\ UNCHANGED simvars
    /\ UNCHANGED rngvars

InitSpawn ==
    /\ started = FALSE
    /\ step_cnt = 0
    /\ sim_t = 0
    /\ goal = [N |-> 0, E |-> 0]
    /\ OS = [N |-> 0, E |-> 0, psi |-> 0, vx |-> 0, vy |-> 0, bng_goal |-> 0]
    /\ TSs = <<>>
    /\ respawn_flags = <<>>
    /\ TS_COLREGs = <<>>
    /\ TS_COLREGs_old = <<>>
    /\ rew = [r |-> 0, r_head |-> 0, r_dist |-> 0, r_coll |-> 0, r_COLREG |-> 0]
    /\ d = FALSE
    /\ map_flags = <<>>
    /\ done_seen = FALSE
    /\ query = <<>>
    /\ state = <<>>
    /\ ret_r = 0
    /\ err = "none"
    /\ TSs_adv = <<>>
    /\ call = <<>>
    /\ np_random = <<0, 0>>
    /\ py_random = <<0, 0>>
    /\ envs = [e \in {"A", "B", "A2"} |-> <<>>]
    /\ calls = [A |-> 0, B |-> 0]

NextSpawn == SpawnQuery

SpecSpawn == InitSpawn /\ [][NextSpawn]_vars

\* C23: the vessel a spawn returns has a heading in [0, 2 * pi), whatever the
\* reference direction and the sampled intersection angle
C23_HeadingInRange ==
    (query # <<>> /\ ~query[1].TS.raised) =>
        (0 <= query[1].TS.eta.psi /\ query[1].TS.eta.psi < 720)

-------------------------------------------------------------------------------
(* FossenEnv._get_ship_domain on its own *)

\* velocities (east, north) in dm/s, at rest and under way
DomainVels == {<<0, 0>>, <<0, 1>>, <<0, 4>>, <<3, 3>>, <<0 - 4, 0>>,
               <<0 - 2, 0 - 3>>, <<4, 4>>}

\* a call _get_ship_domain(OS, TS) not yet made
DomainCall(o, t) ==
    [OS |-> [N |-> 0, E |-> 0, psi |-> 0, vx |-> o[1], vy |-> o[2],
             bng_goal |-> 0],
     TS |-> TSrec(FALSE, 0, 400, 0, 0, 0, t[1], t[2]),
     returned |-> FALSE, V |-> 0, domain |-> 0]

\* the call that query holds at index i is made and its result recorded
DomainAnswer(i) ==
    /\ i \in DOMAIN query
    /\ ~query[i].returned
    /\ query' = [query EXCEPT
                    ![i].returned = TRUE,
                    ![i].V = domain_V(query[i].OS, query[i].TS),
                    ![i].domain = get_ship_domain(query[i].OS, query[i].TS)]
    /\ UNCHANGED simvars
    /\ UNCHANGED rngvars

QueryDomain == \E i \in 1 .. 2 : DomainAnswer(i)

\* two calls for one own ship, against two targets
InitDomain ==
    /\ started = FALSE
    /\ step_cnt = 0
    /\ sim_t = 0
    /\ goal = [N |-> 0, E |-> 0]
    /\ OS = [N |-> 0, E |-> 0, psi |-> 0, vx |-> 0, vy |-> 0, bng_goal |-> 0]
    /\ TSs = <<>>
    /\ respawn_flags = <<>>
    /\ TS_COLREGs = <<>>
    /\ TS_COLREGs_old = <<>>
    /\ rew = [r |-> 0, r_head |-> 0, r_dist |-> 0, r_coll |-> 0, r_COLREG |-> 0]
    /\ d = FALSE
    /\ map_flags = <<>>
    /\ done_seen = FALSE
    /\ \E o \in DomainVels, t1 \in DomainVels, t2 \in DomainVels :
            query = <<DomainCall(o, t1), DomainCall(o, t2)>>
    /\ state = <<>>
    /\ ret_r = 0
    /\ err = "none"
    /\ TSs_adv = <<>>
    /\ call = <<>>
    /\ np_random = <<0, 0>>
    /\ py_random = <<0, 0>>
    /\ envs = [e \in {"A", "B", "A2"} |-> <<>>]
    /\ calls = [A |-> 0, B |-> 0]

NextDomain == QueryDomain

SpecDomain == InitDomain /\ [][NextDomain]_vars

\* C24: the radius does not decrease with V = max(V_own, VR), and it is 0
\* when the own ship and the target are both at rest
C24_DomainMonotone ==
    (Len(query) = 2 /\ query[1].returned /\ query[2].returned) =>
        /\ query[1].V <= query[2].V => query[1].domain <= query[2].domain
        /\ \A i \in 1 .. 2 :
            (get_V(query[i].OS) = 0 /\ get_V(query[i].TS) = 0)
                => query[i].domain = 0

\* a faster pair has the strictly larger radius
C24_LargerAtSpeed ==
    /\ Len(query) = 2 /\ query[1].returned /\ query[2].returned
    /\ 0 < query[1].V /\ query[1].V < query[2].V
    /\ 0 < query[1].domain /\ query[1].domain < query[2].domain

\* C25: what a step leaves is what its phases yield in the order of the
\* code: the own ship is on the map (clamped), the classification, the
\* observation and the reward are those of the clamped own ship and of the
\* targets after the respawns, the termination test saw the step counter
\* before its increment, and counter and time advance together
C25_PhasesInOrder ==
    (started /\ call # <<>> /\ call[1] = "step" /\ err = "none") =>
        /\ OS.N \in 0 .. N_max /\ OS.E \in 0 .. E_max
        /\ Len(TSs) = N_TSs
        /\ TS_COLREGs = set_COLREGs(OS, TSs)
        /\ state = set_state(OS, goal, TSs, TS_COLREGs)
        /\ rew = calculate_reward(OS, goal, TSs, respawn_flags, TS_COLREGs,
                                  TS_COLREGs_old)
        /\ d = done(OS, goal, step_cnt - 1)
        /\ sim_t = step_cnt * delta_t

\* a step that clamped the own ship and respawned a target, where the
\* observation of the targets as advanced would have been another one
C25_ClampedAndRespawned ==
    /\ started /\ call # <<>> /\ call[1] = "step" /\ err = "none"
    /\ OS.N = N_max
    /\ \E i \in Slots : map_flags[i] /\ TSs[i] # TSs_adv[i]
    /\ state # set_state(OS, goal, TSs_adv, set_COLREGs(OS, TSs_adv))
    /\ rew # calculate_reward(OS, goal, TSs_adv, respawn_flags,
                               set_COLREGs(OS, TSs_adv), TS_COLREGs_old)

C27_HitOffset ==
    [N |-> query[1].TS.hit.N - metres(query[1].OS.N),
     E |-> query[1].TS.hit.E - metres(query[1].OS.E)]

C27_GoalOffset ==
    [N |-> query[1].goal.N - query[1].OS.N,
     E |-> query[1].goal.E - query[1].OS.E]

\* C27: the hit point of a line-mode spawn lies on the straight path of the
\* own ship to the goal: its offset from the own ship is a non-negative
\* multiple of the offset of the goal
C27_HitOnPath ==
    (query # <<>> /\ query[1].TS.spawn_mode = "line" /\ query[1].TS.sit # 0
        /\ ~query[1].TS.raised) =>
        /\ C27_HitOffset.N * C27_GoalOffset.E
              = C27_HitOffset.E * C27_GoalOffset.N
        /\ C27_HitOffset.N * C27_GoalOffset.N
              + C27_HitOffset.E * C27_GoalOffset.E >= 0

\* C28: in a line-mode spawn t_hit is in [TCPA_crit / 2, TCPA_crit]; the
\* back-traced position, moved along the spawn heading at the spawn speed
\* for t_hit, is the hit point; and the vessel carries that position and
\* heading, as float32, and the surge speed its thrust converges to
C28_BackTraceRoundTrip ==
    (query # <<>> /\ query[1].TS.spawn_mode = "line" /\ query[1].TS.sit # 0
        /\ ~query[1].TS.raised) =>
        LET TS == query[1].TS
        IN  /\ TCPA_crit \div 2 <= TS.t_hit /\ TS.t_hit <= TCPA_crit
            /\ TS.at.E + TS.nu0 * np_sin(TS.head_TS_s) * TS.t_hit * 100
                  = TS.hit.E
            /\ TS.at.N + TS.nu0 * np_cos(TS.head_TS_s) * TS.t_hit * 100
                  = TS.hit.N
            /\ 2 * Abs(TS.eta.N - TS.at.N) <= float32_ulp
            /\ 2 * Abs(TS.eta.E - TS.at.E) <= float32_ulp
            /\ 2 * Abs(TS.eta.psi - TS.head_TS_s) <= float32_ulp
            /\ TS.nu0 = u_from_tau_u(TS.tau_u)

\* a target spawned half the horizon away from the hit point, off it on
\* both axes
C28_SpawnedAway ==
    /\ query # <<>> /\ query[1].TS.spawn_mode = "line"
    /\ query[1].site = "respawn"
    /\ query[1].TS.t_hit = TCPA_crit \div 2
    /\ query[1].TS.nu0 > 0
    /\ query[1].TS.at.N # query[1].TS.hit.N
    /\ query[1].TS.at.E # query[1].TS.hit.E

C30_StartsOutsideGoalRegion ==
    /\ (started /\ call = <<"reset">>) =>
        /\ OS.N = N_max \div 5 /\ OS.E = E_max \div 5
        /\ goal.N \in (N_max - 25) .. N_max
        /\ goal.E \in (E_max - 25) .. E_max
        /\ EDsq(OS.N, OS.E, goal.N, goal.E) > goal_reach_dist * goal_reach_dist
    /\ (started /\ EDsq(OS.N, OS.E, goal.N, goal.E)
                      <= goal_reach_dist * goal_reach_dist) =>
        /\ step_cnt >= 1
        /\ <<OS.N, OS.E>> # <<N_max \div 5, E_max \div 5>>

\* a second episode has started with the goal in the corner of the goal
\* square next to the own ship
C30_NearestGoalDrawn ==
    /\ started /\ call = <<"reset">> /\ step_cnt = 0
    /\ goal = [N |-> N_max - 25, E |-> E_max - 25]
    /\ rew.r # 0
    /\ ~done(OS, goal, step_cnt)

====
